---- MODULE Spec2Model ----
(***************************************************************************)
(* Bookmark mutation flow of the paper-search front end.                   *)
(*                                                                         *)
(* Modelled state: the auth store's isLoggedIn flag, the React Query cache *)
(* entries ['bookmarks'], ['papers','detail',id] and ['papers','search'],  *)
(* the mutations created by useAddBookmarkMutation and                     *)
(* useDeleteBookmarkMutation, the toasts they show, and the bookmark table *)
(* of the remote API.                                                      *)
(*                                                                         *)
(* The auth store (token, username, name, userId and the two localStorage  *)
(* keys) is modelled with it; AuthSpec runs the store's operations, the    *)
(* logout mutation, the 401 interceptor and page loads on their own,       *)
(* StorageSpec adds a foreign writer of 'auth-storage', SpecNoticeFails    *)
(* adds result callbacks whose toast throws.  AppStoreSpec runs the        *)
(* actions of useAppStore, ToggleSpec the toggle mutation of the detail    *)
(* page, SearchSpec the recent-search list kept in localStorage.           *)
(*                                                                         *)
(* Scheduling: the browser event loop.  A click handler, the mutate call   *)
(* it makes, onMutate (whose only await, cancelQueries, settles in         *)
(* microtasks) and the synchronous start of mutationFn run in one task, so *)
(* they form one action.  A network response and the onSuccess / onError   *)
(* callback it triggers run in one task as well.                           *)
(***************************************************************************)
EXTENDS Integers, Sequences, FiniteSets, TLC

\* ---- bounds ----
NumPapers == 2
MaxMutations == 2
MaxLogins == 1

\* ---- program constants ----
MutationRetry == 1
StaleTimeMs == 60000
RequestTimeoutMs == 10000

Papers == 1..NumPapers

\* JavaScript undefined (an absent field, an absent cache entry, no context)
Undefined == "undefined"
\* a bookmark row without an embedded paper object
NoPaper == 0

DigitStr == <<"1", "2", "3", "4", "5", "6", "7", "8", "9">>

RECURSIVE String(_)
\* String(n) of a paper number: its decimal digits
String(n) ==
    IF n < 10 THEN (IF n = 0 THEN "0" ELSE DigitStr[n])
    ELSE String(n \div 10) \o (IF n % 10 = 0 THEN "0" ELSE DigitStr[n % 10])

PaperIds == {String(n) : n \in Papers}

\* the placeholder id of an optimistic entry
TempId(paperId) == "temp-" \o paperId

\* the id the server assigns to the bookmark of a paper
ServerId(paperId) == "b" \o paperId

\* the shapes of a row of GET /bookmarks: with paper_id, or with the
\* embedded paper object only (a row with both is matched like one with
\* paper_id by every rule below)
RowForms == {"direct", "nested"}

ServerRow(n, form) ==
    [id       |-> ServerId(String(n)),
     paper_id |-> IF form = "nested" THEN Undefined ELSE String(n),
     paper    |-> IF form = "direct" THEN NoPaper ELSE n]

RECURSIVE RowsOf(_, _, _)
\* the rows of the papers n..NumPapers that are in set s, in paper order
RowsOf(s, form, n) ==
    IF n > NumPapers THEN <<>>
    ELSE (IF n \in s THEN <<ServerRow(n, form)>> ELSE <<>>)
         \o RowsOf(s, form, n + 1)

\* ---- error messages of a failed request (api.ts response interceptor) ----
MsgNotLoggedIn == "Not logged in"
MsgConflict    == "Bookmark already exists"
MsgServer      == "Internal Server Error"
MsgNotFound    == "Bookmark not found"

\* errorMessage.includes(sub) for the messages above
Includes(msg, sub) ==
    \/ sub = "already exists"          /\ msg = MsgConflict
    \/ sub = "Bookmark already exists" /\ msg = MsgConflict
    \/ sub = "duplicate"               /\ FALSE

VARIABLES
    isLoggedIn,        \* authStore.isLoggedIn
    logins,            \* number of authStore.login calls so far
    serverBookmarks,   \* papers bookmarked on the server
    rowForm,           \* shape of the rows GET /bookmarks returns
    bookmarksQuery,    \* cache entry ['bookmarks']
    detailInvalidated, \* isInvalidated of ['papers','detail',id]
    searchInvalidated, \* isInvalidated of ['papers','search', ...]
    mutations,         \* the mutations created so far, in creation order
    handlerToast,      \* last toast shown by handleBookmark itself
    session,           \* authStore: token, username, name, userId
    localStorage,      \* keys 'access_token' and 'auth-storage'
    windowLocation,    \* window.location: the page shown, the page asked for
    appStore,          \* useAppStore: isLoggedIn and the two id lists
    logoutMutation,    \* the mutation of useLogoutMutation
    toggleMutation,    \* the mutation of useToggleBookmarkMutation
    storeCalls         \* number of calls of app store actions so far

vars == <<isLoggedIn, logins, serverBookmarks, rowForm, bookmarksQuery,
          detailInvalidated, searchInvalidated, mutations, handlerToast,
          session, localStorage, windowLocation, appStore, logoutMutation,
          toggleMutation, storeCalls>>

\* what the bookmark hooks only read or never touch
sessionVars == <<isLoggedIn, logins, session, localStorage, windowLocation,
                 appStore, logoutMutation, toggleMutation, storeCalls>>

\* ---- React Query cache primitives, as used on the ['bookmarks'] entry ----

\* a value of getQueryData: undefined, or a list of bookmark rows
NoData == [defined |-> FALSE, list |-> <<>>]
Data(list) == [defined |-> TRUE, list |-> list]

\* queryClient.cancelQueries without cancelling anything
CancelQueries_NoCancel(q) == q

\* queryClient.cancelQueries({ queryKey: ['bookmarks'] }): the in-flight
\* fetch is cancelled, its response is dropped when it arrives
CancelQueries(q) == [q EXCEPT !.fetchStatus = "idle"]

\* queryClient.setQueryData(['bookmarks'], data): a manual write is
\* immediately visible, resets isInvalidated, leaves a running fetch alone;
\* writing undefined changes nothing
SetQueryData(q, data) ==
    IF ~data.defined THEN q
    ELSE [q EXCEPT !.data = data, !.isInvalidated = FALSE]

\* queryClient.invalidateQueries({ queryKey: ['bookmarks'] }): the entry is
\* marked stale and, when an observer is enabled, refetched at once
InvalidateQueries(q, active) ==
    [q EXCEPT !.isInvalidated = TRUE,
              !.fetchStatus = IF active THEN "fetching" ELSE @]

\* useBookmarksQuery: enabled: isLoggedIn
BookmarksQueryEnabled(loggedIn) == loggedIn

\* ---- matching rules ----

\* handleBookmark: b.paper_id || (b.paper?.id ? String(b.paper.id) : null)
BookmarkPaperId(b) ==
    IF b.paper_id # Undefined THEN b.paper_id
    ELSE IF b.paper # NoPaper THEN String(b.paper)
    ELSE "null"

\* handleBookmark: bookmarks.find(...), the index of the first match or 0
RECURSIVE FindBookmark(_, _, _)
FindBookmark(list, paperIdString, k) ==
    IF k > Len(list) THEN 0
    ELSE IF BookmarkPaperId(list[k]) = paperIdString THEN k
    ELSE FindBookmark(list, paperIdString, k + 1)

\* the entries of a list that refer to a paper, by either field
EntriesFor(list, paperId) ==
    {k \in 1..Len(list) :
        \/ list[k].paper_id = paperId
        \/ (list[k].paper # NoPaper /\ String(list[k].paper) = paperId)}

\* ---- useAddBookmarkMutation ----

NewBookmark(paperId) ==
    [id |-> TempId(paperId), paper_id |-> paperId, paper |-> NoPaper]

\* onMutate: old.some(b => b.paper_id === paperId)
Exists(old, paperId) == \E k \in 1..Len(old) : old[k].paper_id = paperId

\* onMutate: the updater handed to setQueryData
AddUpdater(old, paperId) ==
    IF Exists(old, paperId) THEN old ELSE Append(old, NewBookmark(paperId))

\* onMutate without the optimistic write
AddOnMutate_NoWrite(q, paperId) == CancelQueries(q)

\* onMutate that writes also when getQueryData returned undefined
AddOnMutate_WriteAlways(q, paperId) ==
    SetQueryData(CancelQueries(q),
                 Data(AddUpdater(IF q.data.defined THEN q.data.list ELSE <<>>,
                                 paperId)))

\* onMutate: cancel, snapshot, optimistic write; yields the new cache entry
AddOnMutate(q, paperId) ==
    LET c == CancelQueries(q)
        previousBookmarks == c.data
    IN  IF previousBookmarks.defined
        THEN SetQueryData(c, Data(AddUpdater(c.data.list, paperId)))
        ELSE c

\* a context that is not the value read after the cancellation
AddContext_Empty(q) == Data(<<>>)

\* onMutate: the returned context { previousBookmarks }
AddContext(q) == CancelQueries(q).data

\* ---- useDeleteBookmarkMutation ----

\* the list without the rows that have this id
RemoveId(list, bookmarkId) ==
    SelectSeq(list, LAMBDA b : b.id # bookmarkId)

\* a delete mutation with an optimistic removal
DeleteOnMutate_Optimistic(q, bookmarkId) ==
    IF q.data.defined
    THEN SetQueryData(CancelQueries(q), Data(RemoveId(q.data.list, bookmarkId)))
    ELSE CancelQueries(q)

\* the delete mutation defines no onMutate: the cache entry is left as it is
DeleteOnMutate(q, bookmarkId) == q

NewMutation(kind, paperId, bookmarkId, context) ==
    [kind |-> kind, paperId |-> paperId, bookmarkId |-> bookmarkId,
     context |-> context, status |-> "pending", phase |-> "created",
     failureCount |-> 0, error |-> Undefined, toasts |-> <<>>]

Toast(m, t) == [m EXCEPT !.toasts = Append(@, t)]

\* ---- mutationFn, retry and the result callbacks ----

\* errorMessage.includes('already exists') || ... || includes('duplicate')
IsDuplicateError(msg) ==
    \/ Includes(msg, "already exists")
    \/ Includes(msg, "Bookmark already exists")
    \/ Includes(msg, "duplicate")

\* mutationFn without the login check
MutationFn_NoCheck(m, loggedIn) ==
    [m EXCEPT !.phase = "network"]

\* mutationFn of the add and of the delete mutation: without a session a
\* toast and a throw, otherwise the request is sent
MutationFn(m, loggedIn) ==
    IF ~loggedIn
    THEN [Toast(m, "loginRequired") EXCEPT !.phase = "threw",
                                           !.error = MsgNotLoggedIn]
    ELSE [m EXCEPT !.phase = "network"]

\* onError of the add mutation without the rollback
AddOnError_NoRollback(m, q, active) ==
    IF IsDuplicateError(m.error) THEN InvalidateQueries(q, active) ELSE q

\* onError of the add mutation that never invalidates
AddOnError_NoInvalidate(m, q, active) ==
    IF m.context.defined THEN SetQueryData(q, m.context) ELSE q

\* onError of the add mutation: the cache entry it leaves
AddOnError(m, q, active) ==
    LET r == IF m.context.defined THEN SetQueryData(q, m.context) ELSE q
    IN  IF IsDuplicateError(m.error) THEN InvalidateQueries(r, active) ELSE r

\* onError of the add mutation: the toast it shows
AddOnErrorToast(m) ==
    IF IsDuplicateError(m.error) THEN "alreadyBookmarked" ELSE "addFailed"

\* onError of the delete mutation: a toast, no cache action
DeleteOnError(m, q, active) == q

\* onSuccess without invalidating the search lists
OnSuccessSearch_Keep(old) == old

\* onSuccess of both mutations: invalidateQueries(['papers', 'search'])
OnSuccessSearch(old) == TRUE

\* onSuccess of both mutations: invalidateQueries(['bookmarks'])
OnSuccess(m, q, active) == InvalidateQueries(q, active)

\* the state after mutationFn has failed with m.error: the retryer runs
\* it again while failureCount < retry, then onError is called
AfterFailure(m, q, active) ==
    IF m.failureCount < MutationRetry
    THEN [m |-> [m EXCEPT !.failureCount = @ + 1, !.phase = "retryWait"],
          q |-> q]
    ELSE [m |-> Toast([m EXCEPT !.status = "error", !.phase = "done"],
                      IF m.kind = "add" THEN AddOnErrorToast(m)
                      ELSE "deleteFailed"),
          q |-> IF m.kind = "add" THEN AddOnError(m, q, active)
                ELSE DeleteOnError(m, q, active)]

\* the state after mutationFn has resolved: onSuccess is called
AfterSuccess(m, q, active) ==
    [m |-> Toast([m EXCEPT !.status = "success", !.phase = "done",
                           !.error = Undefined],
                 IF m.kind = "add" THEN "addSuccess" ELSE "deleteSuccess"),
     q |-> OnSuccess(m, q, active)]

\* mutation.execute after onMutate: mutationFn is started
Execute(m, q, active, loggedIn) ==
    LET started == MutationFn(m, loggedIn)
    IN  IF started.phase = "threw" THEN AfterFailure(started, q, active)
        ELSE [m |-> started, q |-> q]

\* ---- authStore ----

Null == "null"

\* the values login, register and profile responses carry
Tokens == {"t1", "t2"}
Usernames == {"u1", "u2"}
Names == {"n1"}

\* a JavaScript truthiness test of a string | null
Truthy(x) == x # Null /\ x # ""

\* the store's initial data fields
InitialAuthState ==
    [isLoggedIn |-> FALSE, token |-> Null, username |-> Null,
     name |-> Null, userId |-> Null]

\* login: set({ isLoggedIn: true, token, username })
StoreLogin(st, token, username) ==
    [st EXCEPT !.isLoggedIn = TRUE, !.token = token, !.username = username]

\* a logout that leaves the token in the store
StoreLogout_KeepToken(st) ==
    [InitialAuthState EXCEPT !.token = st.token]

\* logout: set of all five fields
StoreLogout(st) ==
    [isLoggedIn |-> FALSE, token |-> Null, username |-> Null,
     name |-> Null, userId |-> Null]

\* setUserInfo: name, userId, and username as a copy of userId
SetUserInfo(st, name, userId) ==
    [st EXCEPT !.name = name, !.userId = userId, !.username = userId]

\* updateUserId: userId, and username as a copy of userId
UpdateUserId(st, userId) ==
    [st EXCEPT !.userId = userId, !.username = userId]

\* localStorage without the 'auth-storage' key
NoStored == [present |-> FALSE, parses |-> FALSE, state |-> InitialAuthState]

\* an 'auth-storage' value on which JSON.parse throws
Unparseable == [present |-> TRUE, parses |-> FALSE, state |-> InitialAuthState]

\* the persist middleware writes the data fields under 'auth-storage' on
\* every set
Persist(ls, st) ==
    [ls EXCEPT !.auth_storage = [present |-> TRUE, parses |-> TRUE,
                                 state |-> st]]

\* loadFromStorage reaches its set: both keys hold something, the entry
\* parses, and its state has a token and a username
LoadFromStorageRestores(ls) ==
    /\ Truthy(ls.access_token)
    /\ ls.auth_storage.present
    /\ ls.auth_storage.parses
    /\ Truthy(ls.auth_storage.state.token)
    /\ Truthy(ls.auth_storage.state.username)

\* loadFromStorage: the state it sets, from 'access_token' and the parsed
\* 'auth-storage'; with the token alone nothing is set
LoadFromStorage(st, ls) ==
    LET parsed == ls.auth_storage.state IN
    IF LoadFromStorageRestores(ls)
    THEN [isLoggedIn |-> TRUE,
          token |-> parsed.token,
          username |-> parsed.username,
          name |-> IF Truthy(parsed.name) THEN parsed.name ELSE Null,
          userId |-> IF Truthy(parsed.userId) THEN parsed.userId
                     ELSE parsed.username]
    ELSE st

\* loadFromStorage: the keys it leaves; the catch of a failed JSON.parse
\* removes 'access_token' and 'auth-storage'
LoadFromStorageKeys(ls) ==
    IF /\ Truthy(ls.access_token)
       /\ ls.auth_storage.present
       /\ ~ls.auth_storage.parses
    THEN [ls EXCEPT !.access_token = Null, !.auth_storage = NoStored]
    ELSE ls

\* the persist middleware at store creation: the stored state over the
\* initial one; an entry that does not parse is skipped
Rehydrate(ls) ==
    IF ls.auth_storage.present /\ ls.auth_storage.parses
    THEN ls.auth_storage.state
    ELSE InitialAuthState

\* useLogoutMutation.onSuccess: logout()
LogoutOnSuccess(st) == StoreLogout(st)

\* an onError that leaves the session when the server call failed
LogoutOnError_Keep(st) == st

\* useLogoutMutation.onError: logout()
LogoutOnError(st) == StoreLogout(st)

\* an interceptor that only removes the key and redirects
Interceptor401_NoLogout(st) == st

\* the response interceptor on a 401: what its logout() leaves in the store
Interceptor401(st) == StoreLogout(st)

\* ---- useAppStore ----

\* initialState of the app store: nobody logged in, seven sample bookmarks
InitialAppState ==
    [isLoggedIn |-> FALSE,
     bookmarkedPaperIds |-> <<"8", "9", "10", "11", "12", "13", "14">>,
     recentlyViewedPaperIds |-> <<>>]

\* useAppStore login(userName, userId)
AppLogin(st) == [st EXCEPT !.isLoggedIn = TRUE]

\* useAppStore logout(): set(initialState)
AppLogout(st) == InitialAppState

\* Array.prototype.includes
SeqIncludes(s, x) == \E i \in 1..Len(s) : s[i] = x

\* a toggleBookmark without the login test
ToggleBookmark_NoLoginTest(st, paperId) ==
    LET paperIdStr == String(paperId)
        isBookmarked == SeqIncludes(st.bookmarkedPaperIds, paperIdStr)
    IN  [st EXCEPT !.bookmarkedPaperIds =
             IF isBookmarked
             THEN SelectSeq(st.bookmarkedPaperIds,
                            LAMBDA id : id # paperIdStr)
             ELSE Append(st.bookmarkedPaperIds, paperIdStr)]

\* toggleBookmark(paperId): the state it sets
ToggleBookmark(st, paperId) ==
    LET paperIdStr == String(paperId)
        isBookmarked == SeqIncludes(st.bookmarkedPaperIds, paperIdStr)
        newBookmarkedIds ==
            IF isBookmarked
            THEN SelectSeq(st.bookmarkedPaperIds,
                           LAMBDA id : id # paperIdStr)
            ELSE Append(st.bookmarkedPaperIds, paperIdStr)
    IN  IF ~st.isLoggedIn THEN st
        ELSE [st EXCEPT !.bookmarkedPaperIds = newBookmarkedIds]

\* Array.prototype.slice(0, n)
Slice(s, n) == SubSeq(s, 1, IF Len(s) < n THEN Len(s) ELSE n)

\* the length the list of recently viewed papers is cut to
RecentLimit == 10

\* an addRecentlyViewedPaper that does not take the old entry out
AddRecentlyViewedPaper_NoFilter(st, paperId) ==
    [st EXCEPT !.recentlyViewedPaperIds =
         Slice(<<paperId>> \o st.recentlyViewedPaperIds, RecentLimit)]

\* addRecentlyViewedPaper(paperId): filter, prepend, slice
AddRecentlyViewedPaper(st, paperId) ==
    LET filtered == SelectSeq(st.recentlyViewedPaperIds,
                              LAMBDA id : id # paperId)
        newList == Slice(<<paperId>> \o filtered, RecentLimit)
    IN  [st EXCEPT !.recentlyViewedPaperIds = newList]

\* ---- localSearchHistory ----

\* the default of the limit parameter
DEFAULT_LIMIT == 20

\* localStorage without the 'recent_search_keywords' key
NoKeywords == [present |-> FALSE, list |-> <<>>]

\* query.trim() of a query given as blanks in front of a trimmed text
TrimQuery(query) == query.core

\* the query as the string it is
RawQuery(query) == query.lead \o query.core

\* loadRecentSearches(limit): nothing stored gives [], else slice(0, limit)
LoadRecentSearches(ls, limit) ==
    IF ~ls.recent_search_keywords.present THEN <<>>
    ELSE Slice(ls.recent_search_keywords.list, limit)

\* a saveSearchKeyword that stores the query as typed
SaveSearchKeyword_NoTrim(ls, query, limit) ==
    LET current == LoadRecentSearches(ls, limit)
        filtered == SelectSeq(current, LAMBDA q : q # RawQuery(query))
        updated == Slice(<<RawQuery(query)>> \o filtered, limit)
    IN  [ls EXCEPT !.recent_search_keywords =
                       [present |-> TRUE, list |-> updated]]

\* saveSearchKeyword(query, limit): the storage it leaves
SaveSearchKeyword(ls, query, limit) ==
    LET trimmed == TrimQuery(query)
        current == LoadRecentSearches(ls, limit)
        filtered == SelectSeq(current, LAMBDA q : q # trimmed)
        updated == Slice(<<trimmed>> \o filtered, limit)
    IN  IF trimmed = "" THEN ls
        ELSE [ls EXCEPT !.recent_search_keywords =
                            [present |-> TRUE, list |-> updated]]

\* removeSearchKeyword(query, limit): the storage it leaves
RemoveSearchKeyword(ls, query, limit) ==
    LET current == LoadRecentSearches(ls, limit)
        updated == SelectSeq(current, LAMBDA q : q # RawQuery(query))
    IN  [ls EXCEPT !.recent_search_keywords =
                       [present |-> TRUE, list |-> updated]]

\* clearSearchKeywords()
ClearSearchKeywords(ls) == [ls EXCEPT !.recent_search_keywords = NoKeywords]

\* localStorage with none of the three keys
EmptyStorage ==
    [access_token |-> Null, auth_storage |-> NoStored,
     recent_search_keywords |-> NoKeywords]

\* the toggle mutation before any mutate
IdleToggle ==
    [status |-> "idle", paperId |-> NoPaper, context |-> NoData,
     toast |-> "none"]

\* ---- initial state ----

\* the app starts without a session; a mounted useBookmarksQuery is
\* disabled until isLoggedIn is true
BaseInit ==
    /\ isLoggedIn = FALSE
    /\ logins = 0
    /\ serverBookmarks \in SUBSET Papers
    /\ rowForm \in RowForms
    /\ bookmarksQuery =
         [data |-> NoData, isInvalidated |-> FALSE,
          fetchStatus |-> IF BookmarksQueryEnabled(isLoggedIn)
                          THEN "fetching" ELSE "idle"]
    /\ detailInvalidated = {}
    /\ searchInvalidated = FALSE
    /\ mutations = <<>>
    /\ handlerToast = "none"
    /\ session = [token |-> Null, username |-> Null, name |-> Null,
                  userId |-> Null]
    /\ windowLocation = [href |-> "/", asked |-> Null]
    /\ logoutMutation = "idle"
    /\ toggleMutation = IdleToggle
    /\ storeCalls = 0

\* the state after the modules are loaded
Init ==
    /\ BaseInit
    /\ appStore = InitialAppState
    /\ localStorage = EmptyStorage

\* const { data: bookmarks = [] } = useBookmarksQuery()
Bookmarks == IF bookmarksQuery.data.defined THEN bookmarksQuery.data.list
             ELSE <<>>

Active == BookmarksQueryEnabled(isLoggedIn)

\* useAuthStore.getState(): the five data fields
AuthState ==
    [isLoggedIn |-> isLoggedIn, token |-> session.token,
     username |-> session.username, name |-> session.name,
     userId |-> session.userId]

\* a set of the store: the new fields, persisted under 'auth-storage';
\* accessToken is the value of the 'access_token' key afterwards
SetAuthState(st, accessToken) ==
    /\ isLoggedIn' = st.isLoggedIn
    /\ session' = [token |-> st.token, username |-> st.username,
                   name |-> st.name, userId |-> st.userId]
    /\ localStorage' = [Persist(localStorage, st)
                          EXCEPT !.access_token = accessToken]

\* ---- the mutate calls ----

\* addBookmarkMutation.mutate({ paperId }): onMutate, then mutationFn
AddBookmarkMutate(paperId) ==
    /\ Len(mutations) < MaxMutations
    /\ LET m == NewMutation("add", paperId, Undefined,
                            AddContext(bookmarksQuery))
           r == Execute(m, AddOnMutate(bookmarksQuery, paperId),
                        Active, isLoggedIn)
       IN  /\ mutations' = Append(mutations, r.m)
           /\ bookmarksQuery' = r.q
    /\ UNCHANGED <<sessionVars, serverBookmarks, rowForm, detailInvalidated,
                   searchInvalidated>>

\* deleteBookmarkMutation.mutate(bookmarkId): no onMutate, then mutationFn
DeleteBookmarkMutate(bookmarkId) ==
    /\ Len(mutations) < MaxMutations
    /\ LET m == NewMutation("delete", Undefined, bookmarkId, NoData)
           r == Execute(m, DeleteOnMutate(bookmarksQuery, bookmarkId),
                        Active, isLoggedIn)
       IN  /\ mutations' = Append(mutations, r.m)
           /\ bookmarksQuery' = r.q
    /\ UNCHANGED <<sessionVars, serverBookmarks, rowForm, detailInvalidated,
                   searchInvalidated>>

\* the mutations called by a component of its own; a delete is called
\* with the id of a row of the list it renders
DirectAdd == \E paperId \in PaperIds :
    AddBookmarkMutate(paperId) /\ UNCHANGED handlerToast

DirectDelete == \E id \in {Bookmarks[k].id : k \in 1..Len(Bookmarks)} :
    DeleteBookmarkMutate(id) /\ UNCHANGED handlerToast

\* ---- handleBookmark ----

\* the paperId argument: a number, or a string that may carry blanks
PaperIdInputs ==
    [type : {"number"}, num : Papers, lead : {""}, core : {""}]
    \cup [type : {"string"}, num : {0}, lead : {"", " "},
          core : PaperIds \cup {""}]

\* paperId.trim() of a string input
Trim(in) == in.core

\* typeof paperId === 'string' ? paperId.trim() : String(paperId)
PaperIdString(in) == IF in.type = "string" THEN Trim(in) ELSE String(in.num)

HandleBookmark(in) ==
    IF ~isLoggedIn
    THEN /\ handlerToast' = "loginRequired"
         /\ UNCHANGED <<sessionVars, serverBookmarks, rowForm, bookmarksQuery,
                        detailInvalidated, searchInvalidated, mutations>>
    ELSE IF PaperIdString(in) = ""
    THEN /\ handlerToast' = "invalidPaperId"
         /\ UNCHANGED <<sessionVars, serverBookmarks, rowForm, bookmarksQuery,
                        detailInvalidated, searchInvalidated, mutations>>
    ELSE LET k == FindBookmark(Bookmarks, PaperIdString(in), 1)
         IN  IF k # 0
             THEN IF Bookmarks[k].id # Undefined
                  THEN /\ DeleteBookmarkMutate(Bookmarks[k].id)
                       /\ UNCHANGED handlerToast
                  ELSE /\ handlerToast' = "bookmarkIdNotFound"
                       /\ UNCHANGED <<sessionVars, serverBookmarks, rowForm,
                                      bookmarksQuery, detailInvalidated,
                                      searchInvalidated, mutations>>
             ELSE /\ AddBookmarkMutate(PaperIdString(in))
                  /\ UNCHANGED handlerToast

ClickBookmark == \E in \in PaperIdInputs : HandleBookmark(in)

\* ---- retry and responses ----

SetMutation(i, r) ==
    /\ mutations' = [mutations EXCEPT ![i] = r.m]
    /\ bookmarksQuery' = r.q

\* the retryer runs mutationFn again after retryDelay
Retry == \E i \in 1..Len(mutations) :
    /\ mutations[i].phase = "retryWait"
    /\ SetMutation(i, Execute(mutations[i], bookmarksQuery, Active,
                              isLoggedIn))
    /\ UNCHANGED <<sessionVars, serverBookmarks, rowForm, detailInvalidated,
                   searchInvalidated, handlerToast>>

\* the paper whose server bookmark has this id, or 0
PaperOfServerId(id) ==
    IF \E n \in Papers : ServerId(String(n)) = id
    THEN CHOOSE n \in Papers : ServerId(String(n)) = id
    ELSE 0

\* the paper number of a paper id string
PaperOf(paperId) == CHOOSE n \in Papers : String(n) = paperId

\* POST /bookmarks or DELETE /bookmarks/{id} succeeds
RespondSuccess == \E i \in 1..Len(mutations) :
    LET m == mutations[i] IN
    /\ m.phase = "network"
    /\ IF m.kind = "add"
       THEN /\ PaperOf(m.paperId) \notin serverBookmarks
            /\ serverBookmarks' = serverBookmarks \cup {PaperOf(m.paperId)}
       ELSE /\ PaperOfServerId(m.bookmarkId) \in serverBookmarks
            /\ serverBookmarks' =
                 serverBookmarks \ {PaperOfServerId(m.bookmarkId)}
    /\ SetMutation(i, AfterSuccess(m, bookmarksQuery, Active))
    /\ searchInvalidated' = OnSuccessSearch(searchInvalidated)
    /\ UNCHANGED <<sessionVars, rowForm, detailInvalidated, handlerToast>>

\* the request fails: a conflict for a paper that is bookmarked already, a
\* missing bookmark id, or a server or network error
RespondError == \E i \in 1..Len(mutations), msg \in {MsgConflict, MsgNotFound, MsgServer} :
    LET m == mutations[i] IN
    /\ m.phase = "network"
    /\ msg = MsgConflict =>
         m.kind = "add" /\ PaperOf(m.paperId) \in serverBookmarks
    /\ msg = MsgNotFound =>
         m.kind = "delete" /\ PaperOfServerId(m.bookmarkId) \notin serverBookmarks
    /\ SetMutation(i, AfterFailure([m EXCEPT !.error = msg, !.phase = "threw"],
                                   bookmarksQuery, Active))
    /\ UNCHANGED <<sessionVars, serverBookmarks, rowForm, detailInvalidated,
                   searchInvalidated, handlerToast>>

\* ---- the bookmark list query ----

\* an add mutation that wrote the list optimistically and has not settled
\* wrote it less than (retry + 1) request timeouts and one retry delay ago
WrittenByPending ==
    \E i \in 1..Len(mutations) :
        /\ mutations[i].kind = "add"
        /\ mutations[i].status = "pending"
        /\ mutations[i].context.defined

\* can staleTime pass between a mutation's optimistic write and its end
StaleWhilePending ==
    (MutationRetry + 1) * RequestTimeoutMs + MutationRetry * 1000
        >= StaleTimeMs

\* a component mounts or the network reconnects: the enabled query
\* refetches when it has no data, is invalidated or staleTime has passed
FetchStart ==
    /\ BookmarksQueryEnabled(isLoggedIn)
    /\ bookmarksQuery.fetchStatus = "idle"
    /\ \/ ~bookmarksQuery.data.defined
       \/ bookmarksQuery.isInvalidated
       \/ WrittenByPending => StaleWhilePending
    /\ bookmarksQuery' = [bookmarksQuery EXCEPT !.fetchStatus = "fetching"]
    /\ UNCHANGED <<sessionVars, serverBookmarks, rowForm, detailInvalidated,
                   searchInvalidated, mutations, handlerToast>>

\* fetchBookmarks resolves with the server's rows
FetchSuccess ==
    /\ bookmarksQuery.fetchStatus = "fetching"
    /\ bookmarksQuery' =
         [data |-> Data(RowsOf(serverBookmarks, rowForm, 1)),
          isInvalidated |-> FALSE, fetchStatus |-> "idle"]
    /\ UNCHANGED <<sessionVars, serverBookmarks, rowForm, detailInvalidated,
                   searchInvalidated, mutations, handlerToast>>

\* fetchBookmarks fails for good: the data stays as it is
FetchError ==
    /\ bookmarksQuery.fetchStatus = "fetching"
    /\ bookmarksQuery' = [bookmarksQuery EXCEPT !.fetchStatus = "idle"]
    /\ UNCHANGED <<sessionVars, serverBookmarks, rowForm, detailInvalidated,
                   searchInvalidated, mutations, handlerToast>>

\* the invalidated search lists have been refetched
SearchRefetched ==
    /\ searchInvalidated
    /\ searchInvalidated' = FALSE
    /\ UNCHANGED <<sessionVars, serverBookmarks, rowForm, bookmarksQuery,
                   detailInvalidated, mutations, handlerToast>>

\* ---- the auth store ----

\* useLoginMutation.onSuccess (login, then updateUserId): the bookmark
\* query becomes enabled and fetches when it has no data or is stale
Login ==
    /\ ~isLoggedIn
    /\ logins < MaxLogins
    /\ \E token \in {"t1"}, username \in {"u1"} :
         SetAuthState(UpdateUserId(StoreLogin(AuthState, token, username),
                                   username),
                      token)
    /\ logins' = logins + 1
    /\ bookmarksQuery' =
         IF ~bookmarksQuery.data.defined \/ bookmarksQuery.isInvalidated
         THEN [bookmarksQuery EXCEPT !.fetchStatus = "fetching"]
         ELSE bookmarksQuery
    /\ UNCHANGED <<serverBookmarks, rowForm, detailInvalidated,
                   searchInvalidated, mutations, handlerToast,
                   windowLocation, appStore, logoutMutation,
                   toggleMutation, storeCalls>>

\* authStore.logout: the query cache is not cleared
Logout ==
    /\ isLoggedIn
    /\ SetAuthState(StoreLogout(AuthState), Null)
    /\ UNCHANGED <<logins, serverBookmarks, rowForm, bookmarksQuery, detailInvalidated,
                   searchInvalidated, mutations, handlerToast,
                   windowLocation, appStore, logoutMutation,
                   toggleMutation, storeCalls>>

Next ==
    \/ ClickBookmark
    \/ DirectAdd
    \/ DirectDelete
    \/ Retry
    \/ RespondSuccess
    \/ RespondError
    \/ FetchStart
    \/ FetchSuccess
    \/ FetchError
    \/ SearchRefetched
    \/ Login
    \/ Logout

Spec == Init /\ [][Next]_vars

TypeOK ==
    /\ isLoggedIn \in BOOLEAN
    /\ serverBookmarks \subseteq Papers
    /\ Len(mutations) <= MaxMutations

\* ---- steps, as seen from two successive states ----

\* this step called mutate: the last mutation of the next state is new
Created == Len(mutations') = Len(mutations) + 1

NewM == mutations'[Len(mutations')]

\* this step ran onSuccess or onError of mutation i
Settled(i) ==
    /\ mutations[i].status = "pending"
    /\ mutations'[i].status # "pending"

\* this step sent the request of mutation i
Sent(i) ==
    /\ mutations'[i].phase = "network"
    /\ i > Len(mutations) \/ mutations[i].phase # "network"

LastToast(m) == m.toasts[Len(m.toasts)]

\* ---- properties ----

\* C1: when the add mutation ends with an error that is no duplicate
\* conflict, onError leaves the bookmark list equal to the snapshot the
\* attempt took just before its optimistic write.
C1_RollbackRestoresSnapshot ==
    [][\A i \in 1..Len(mutations) :
         ( /\ Settled(i)
           /\ mutations[i].kind = "add"
           /\ mutations[i].context.defined
           /\ mutations'[i].status = "error"
           /\ ~IsDuplicateError(mutations'[i].error) )
         => bookmarksQuery'.data = mutations[i].context]_vars

\* an add whose optimistic write inserted a row has failed with a server
\* error and the list is back at the snapshot
C1_Witness ==
    \E i \in 1..Len(mutations) :
        /\ mutations[i].kind = "add"
        /\ mutations[i].status = "error"
        /\ mutations[i].error = MsgServer
        /\ mutations[i].context.defined
        /\ ~Exists(mutations[i].context.list, mutations[i].paperId)
        /\ bookmarksQuery.data = mutations[i].context

\* C2: add(P) for a paper without an entry in the cached list appends
\* exactly the placeholder entry (paper_id = P, id = temp-P), keeps every
\* other entry, and does so while the mutation is still pending.
C2_OptimisticInsert ==
    [][( /\ Created
         /\ NewM.kind = "add"
         /\ bookmarksQuery.data.defined
         /\ EntriesFor(bookmarksQuery.data.list, NewM.paperId) = {} )
       => /\ bookmarksQuery'.data =
               Data(Append(bookmarksQuery.data.list,
                           [id |-> TempId(NewM.paperId),
                            paper_id |-> NewM.paperId, paper |-> NoPaper]))
          /\ NewM.status = "pending"]_vars

\* an add is waiting for its response and the list is its snapshot plus
\* the placeholder
C2_Witness ==
    \E i \in 1..Len(mutations) :
        /\ mutations[i].kind = "add"
        /\ mutations[i].phase = "network"
        /\ mutations[i].context.defined
        /\ EntriesFor(mutations[i].context.list, mutations[i].paperId) = {}
        /\ bookmarksQuery.data.defined
        /\ Len(bookmarksQuery.data.list) = Len(mutations[i].context.list) + 1
        /\ Cardinality(EntriesFor(bookmarksQuery.data.list,
                                  mutations[i].paperId)) = 1

\* C3: no addBookmark or deleteBookmark request is sent while
\* authStore.isLoggedIn is false, through handleBookmark or through the
\* mutations themselves.
C3_NoRequestWithoutSession ==
    [][\A i \in 1..Len(mutations') : Sent(i) => isLoggedIn]_vars

\* without a session handleBookmark has shown its toast, and an add and a
\* delete mutation were called and threw without sending anything
C3_Witness ==
    /\ ~isLoggedIn
    /\ handlerToast = "loginRequired"
    /\ \E i, j \in 1..Len(mutations) :
        /\ mutations[i].kind = "add"
        /\ mutations[j].kind = "delete"
        /\ mutations[i].status = "error"
        /\ mutations[i].error = MsgNotLoggedIn
        /\ mutations[j].error = MsgNotLoggedIn
        /\ mutations[i].toasts = <<"loginRequired", "loginRequired", "addFailed">>

\* this step ran onError of add mutation i for a duplicate conflict
DuplicateSettled(i) ==
    /\ Settled(i)
    /\ mutations[i].kind = "add"
    /\ mutations'[i].status = "error"
    /\ IsDuplicateError(mutations'[i].error)

\* C4 as stated: on a duplicate conflict the bookmark list is marked stale,
\* its data is left as it is (no rollback), and the toast is the 'already
\* bookmarked' one, not the generic failure toast.
C4_DuplicateNotRolledBack ==
    [][\A i \in 1..Len(mutations) :
         DuplicateSettled(i)
         => /\ bookmarksQuery'.isInvalidated
            /\ bookmarksQuery'.data = bookmarksQuery.data
            /\ LastToast(mutations'[i]) = "alreadyBookmarked"]_vars

\* C4 as amended: on a duplicate conflict the bookmark list is first
\* rolled back to the snapshot (when one was taken) and then marked stale,
\* and the only toast of onError is the 'already bookmarked' one.
C4_DuplicateRolledBackAndStale ==
    [][\A i \in 1..Len(mutations) :
         DuplicateSettled(i)
         => /\ bookmarksQuery'.isInvalidated
            /\ bookmarksQuery'.data =
                 IF mutations[i].context.defined THEN mutations[i].context
                 ELSE bookmarksQuery.data
            /\ mutations'[i].toasts =
                 Append(mutations[i].toasts, "alreadyBookmarked")]_vars

\* an add has ended with the conflict message; the list is stale, holds the
\* snapshot, and that differs from what a refetch would deliver
C4_Witness ==
    \E i \in 1..Len(mutations) :
        /\ mutations[i].kind = "add"
        /\ mutations[i].status = "error"
        /\ mutations[i].error = MsgConflict
        /\ mutations[i].context.defined
        /\ LastToast(mutations[i]) = "alreadyBookmarked"
        /\ bookmarksQuery.isInvalidated
        /\ bookmarksQuery.data = mutations[i].context
        /\ bookmarksQuery.data.list # RowsOf(serverBookmarks, rowForm, 1)

\* add mutations i and j, for the same paper, have both run their
\* optimistic phase on a cached list and neither request has come back
BothOptimistic(i, j) ==
    /\ i < j
    /\ mutations[i].kind = "add"
    /\ mutations[j].kind = "add"
    /\ mutations[i].paperId = mutations[j].paperId
    /\ mutations[i].context.defined
    /\ mutations[j].context.defined
    /\ mutations[i].phase = "network" /\ mutations[i].failureCount = 0
    /\ mutations[j].phase = "network" /\ mutations[j].failureCount = 0

\* C5 as stated: when add(P) was called twice and neither request has come
\* back, the cached list does not hold two entries for P.
C5_NoSecondEntry ==
    \A i, j \in 1..Len(mutations) :
        BothOptimistic(i, j)
        => Cardinality(EntriesFor(Bookmarks, mutations[i].paperId)) <= 1

\* the paper a successful mutation was about
SettledPaperId(m) ==
    IF m.kind = "add" THEN m.paperId
    ELSE String(PaperOfServerId(m.bookmarkId))

RemoveCalled ==
    /\ Created
    /\ NewM.kind = "delete"
    /\ \E k \in 1..Len(Bookmarks) : Bookmarks[k].id = NewM.bookmarkId

AllSettled == \A i \in 1..Len(mutations) : mutations[i].status # "pending"

\* C8 as stated: once every attempt has ended and no fetch is running, the
\* cached list is the server's list or it is marked stale.
C8_Converges ==
    ( /\ AllSettled
      /\ bookmarksQuery.fetchStatus = "idle"
      /\ bookmarksQuery.data.defined )
    => \/ bookmarksQuery.data.list = RowsOf(serverBookmarks, rowForm, 1)
       \/ bookmarksQuery.isInvalidated

About(m, paperId) ==
    IF m.kind = "add"
    THEN m.paperId = paperId
    ELSE m.bookmarkId \in {TempId(paperId), ServerId(paperId)}

\* the last mutation that wrote the list optimistically, or 0
LastWriter ==
    LET w == {i \in 1..Len(mutations) :
                mutations[i].kind = "add" /\ mutations[i].context.defined}
    IN  IF w = {} THEN 0 ELSE CHOOSE i \in w : \A k \in w : k <= i

AddThenRemove(i, j) ==
    /\ i < j
    /\ mutations[i].kind = "add"
    /\ mutations[j].kind = "delete"
    /\ About(mutations[j], mutations[i].paperId)
    /\ mutations[i].status = "pending"
    /\ mutations[j].status = "pending"

\* C10 as stated: when add(P) is followed by a remove of P, the response of
\* the add and its callbacks do not overwrite the list the remove left.
C10_LateResponseKeepsList ==
    [][\A i, j \in 1..Len(mutations) :
         (AddThenRemove(i, j) /\ Settled(i))
         => bookmarksQuery'.data = bookmarksQuery.data]_vars

\* C11 as stated: an add called without a session leaves the bookmark-list
\* cache entry as it was (value, stale mark and running fetch), also when
\* the mutation is called directly.
C11_NoCacheMutationWithoutSession ==
    [][(Created /\ NewM.kind = "add" /\ ~isLoggedIn)
       => bookmarksQuery' = bookmarksQuery]_vars

\* C12 as stated: an attempt that has ended has shown exactly one notice,
\* whichever of the four outcomes it ended with.
C12_ExactlyOneNotice ==
    \A i \in 1..Len(mutations) :
        mutations[i].status # "pending" => Len(mutations[i].toasts) = 1

\* C13 as stated: every attempt that ends in failure ends with the list
\* rolled back to its snapshot or with the list marked stale.
C13_CacheActionOnEveryFailure ==
    [][\A i \in 1..Len(mutations) :
         (Settled(i) /\ mutations'[i].status = "error")
         => \/ /\ mutations[i].context.defined
               /\ bookmarksQuery'.data = mutations[i].context
            \/ bookmarksQuery'.isInvalidated]_vars

\* handleBookmark is called for a paper the server has bookmarked, so the
\* call is a request to remove it, and the cached list holds no entry of it
RemoveWithoutEntry(in) ==
    /\ isLoggedIn
    /\ PaperIdString(in) \in PaperIds
    /\ PaperOf(PaperIdString(in)) \in serverBookmarks
    /\ FindBookmark(Bookmarks, PaperIdString(in), 1) = 0
    /\ HandleBookmark(in)

\* C14 as stated: a remove requested for a paper without a cached entry is
\* reported as 'bookmark entry not found' and sends no request.
C14_RemoveWithoutEntryReported ==
    [][\A in \in PaperIdInputs :
         RemoveWithoutEntry(in)
         => /\ handlerToast' = "bookmarkIdNotFound"
            /\ mutations' = mutations]_vars

\* C15: an add called with a session while the bookmark list has no cached
\* value does not fail in onMutate: the request is sent, no snapshot is
\* taken, and the list is still without a value after onMutate and after
\* the onError of a failed attempt.
C15_AddWithoutCacheEntry ==
    [][/\ ( /\ Created
            /\ NewM.kind = "add"
            /\ isLoggedIn
            /\ ~bookmarksQuery.data.defined )
          => /\ ~bookmarksQuery'.data.defined
             /\ ~NewM.context.defined
             /\ NewM.phase = "network"
             /\ NewM.status = "pending"
       /\ \A i \in 1..Len(mutations) :
            ( /\ Settled(i)
              /\ mutations'[i].status = "error"
              /\ mutations[i].kind = "add"
              /\ ~mutations[i].context.defined
              /\ ~bookmarksQuery.data.defined )
            => ~bookmarksQuery'.data.defined]_vars

\* an add whose request was sent from a list without a value has failed on
\* both attempts and the list is still without a value
C15_Witness ==
    \E i \in 1..Len(mutations) :
        /\ mutations[i].kind = "add"
        /\ mutations[i].status = "error"
        /\ mutations[i].failureCount = MutationRetry
        /\ mutations[i].error \in {MsgServer, MsgConflict}
        /\ ~mutations[i].context.defined
        /\ ~bookmarksQuery.data.defined

\* ---- the toggle mutation's matching ----

\* String(b.paper?.id): the string "undefined" for a row without paper
NestedIdString(b) ==
    IF b.paper = NoPaper THEN "undefined" ELSE String(b.paper)

\* useToggleBookmarkMutation.onMutate: previousBookmarks.some(b =>
\*   b.paper_id === paperIdString || String(b.paper?.id) === paperIdString)
ToggleIsBookmarked(list, paperIdString) ==
    \E k \in 1..Len(list) :
        \/ list[k].paper_id = paperIdString
        \/ NestedIdString(list[k]) = paperIdString

\* useToggleBookmarkMutation.onMutate: the rows the filter takes out,
\* bookmarkPaperId === paperIdString
ToggleFilterRemoves(list, paperIdString) ==
    {k \in 1..Len(list) : BookmarkPaperId(list[k]) = paperIdString}

\* C16 as stated: on the cached list, handleBookmark's lookup, the add
\* mutation's duplicate check and the toggle mutation's check and filter
\* give the same answer to 'has paper P a bookmark' for every P.
C16_MatchingAgrees ==
    \A paperId \in PaperIds :
        LET found == FindBookmark(Bookmarks, paperId, 1) # 0 IN
        /\ Exists(Bookmarks, paperId) = found
        /\ ToggleIsBookmarked(Bookmarks, paperId) = found
        /\ (ToggleFilterRemoves(Bookmarks, paperId) # {}) = found

\* C17: the step that calls add leaves no bookmark-list fetch running, its
\* snapshot is the cached value the step found, the list it leaves is the
\* updater applied to that snapshot, and the request is sent in the same
\* step (with a session), after the write.
C17_SnapshotIsReplacedValue ==
    [][(Created /\ NewM.kind = "add")
       => /\ bookmarksQuery'.fetchStatus = "idle"
          /\ NewM.context = bookmarksQuery.data
          /\ NewM.context.defined
               => bookmarksQuery'.data =
                    Data(AddUpdater(NewM.context.list, NewM.paperId))
          /\ isLoggedIn
               => /\ NewM.phase = "network"
                  /\ NewM.failureCount = 0]_vars

\* a second add is waiting for its response while the first is unresolved;
\* its snapshot is the list the first add left, placeholder included
C17_Witness ==
    \E i, j \in 1..Len(mutations) :
        /\ i < j
        /\ mutations[i].kind = "add"
        /\ mutations[i].status = "pending"
        /\ mutations[i].context.defined
        /\ mutations[j].kind = "add"
        /\ mutations[j].phase = "network"
        /\ mutations[j].paperId # mutations[i].paperId
        /\ mutations[j].context =
             Data(AddUpdater(mutations[i].context.list, mutations[i].paperId))
        /\ mutations[j].context.list # <<>>
        /\ bookmarksQuery.data =
             Data(AddUpdater(mutations[j].context.list, mutations[j].paperId))

\* ---- result callbacks whose notification call throws ----

\* message of the error a throwing toast call raises
MsgNotice == "notification failed"

\* onSuccess with toast.success throwing: the invalidateQueries calls after
\* it are not reached; the mutation catches the error and calls onError
\* with it, which rolls back (add) and calls toast.error
OnSuccessNoticeThrows(m, q, shown) ==
    LET failed == [m EXCEPT !.status = "error", !.phase = "done",
                            !.error = MsgNotice]
    IN  [m |-> IF shown
               THEN Toast(failed, IF m.kind = "add" THEN "addFailed"
                                  ELSE "deleteFailed")
               ELSE failed,
         q |-> IF m.kind = "add" /\ m.context.defined
               THEN SetQueryData(q, m.context) ELSE q]

\* onError with toast.error throwing: the add mutation has rolled back
\* before the call, the invalidateQueries of the duplicate branch comes
\* after it and is not reached
OnErrorNoticeThrows(m, q) ==
    [m |-> [m EXCEPT !.status = "error", !.phase = "done"],
     q |-> IF m.kind = "add" /\ m.context.defined
           THEN SetQueryData(q, m.context) ELSE q]

\* the request succeeds and the success toast throws
RespondSuccessNoticeThrows == \E i \in 1..Len(mutations), shown \in BOOLEAN :
    LET m == mutations[i] IN
    /\ m.phase = "network"
    /\ IF m.kind = "add"
       THEN /\ PaperOf(m.paperId) \notin serverBookmarks
            /\ serverBookmarks' = serverBookmarks \cup {PaperOf(m.paperId)}
       ELSE /\ PaperOfServerId(m.bookmarkId) \in serverBookmarks
            /\ serverBookmarks' =
                 serverBookmarks \ {PaperOfServerId(m.bookmarkId)}
    /\ SetMutation(i, OnSuccessNoticeThrows(m, bookmarksQuery, shown))
    /\ UNCHANGED <<sessionVars, rowForm, detailInvalidated,
                   searchInvalidated, handlerToast>>

\* the last attempt fails and the toast of onError throws
RespondErrorNoticeThrows ==
    \E i \in 1..Len(mutations), msg \in {MsgConflict, MsgNotFound, MsgServer} :
    LET m == mutations[i] IN
    /\ m.phase = "network"
    /\ m.failureCount >= MutationRetry
    /\ msg = MsgConflict =>
         m.kind = "add" /\ PaperOf(m.paperId) \in serverBookmarks
    /\ msg = MsgNotFound =>
         m.kind = "delete" /\ PaperOfServerId(m.bookmarkId) \notin serverBookmarks
    /\ SetMutation(i, OnErrorNoticeThrows([m EXCEPT !.error = msg],
                                          bookmarksQuery))
    /\ UNCHANGED <<sessionVars, serverBookmarks, rowForm,
                   detailInvalidated, searchInvalidated, handlerToast>>

NextNoticeFails ==
    \/ Next
    \/ RespondSuccessNoticeThrows
    \/ RespondErrorNoticeThrows

SpecNoticeFails == Init /\ [][NextNoticeFails]_vars

\* this step ran a result callback of mutation i whose toast call threw
NoticeThrew(i) ==
    /\ Settled(i)
    /\ \/ mutations'[i].error = MsgNotice
       \/ mutations'[i].toasts = mutations[i].toasts

\* C18 as stated: when the toast of a result callback throws, the cache
\* action of the outcome is done all the same: the list is marked stale on
\* success and on a duplicate conflict, and rolled back on a generic failure.
C18_CacheActionDespiteNotice ==
    [][\A i \in 1..Len(mutations) :
         NoticeThrew(i)
         => IF mutations'[i].error = MsgNotice
                \/ IsDuplicateError(mutations'[i].error)
            THEN bookmarksQuery'.isInvalidated
            ELSE (mutations[i].kind = "add" /\ mutations[i].context.defined)
                 => bookmarksQuery'.data = mutations[i].context]_vars

\* ---- the auth store on its own: pages without the bookmark list ----

bookmarkVars == <<logins, serverBookmarks, rowForm, bookmarksQuery,
                  detailInvalidated, searchInvalidated, mutations,
                  handlerToast>>

\* login(token, username): the set, then setItem('access_token', token);
\* useLoginMutation passes the response's username, which may be empty
LoginCall == \E token \in Tokens, username \in Usernames \cup {""} :
    /\ SetAuthState(StoreLogin(AuthState, token, username), token)
    /\ UNCHANGED <<bookmarkVars, windowLocation, appStore, logoutMutation,
                   toggleMutation, storeCalls>>

\* updateUserId(userId): its one caller is useLoginMutation.onSuccess,
\* after login
UpdateUserIdCall == \E userId \in Usernames :
    /\ isLoggedIn
    /\ SetAuthState(UpdateUserId(AuthState, userId), localStorage.access_token)
    /\ UNCHANGED <<bookmarkVars, windowLocation, appStore, logoutMutation,
                   toggleMutation, storeCalls>>

\* setUserInfo(name, userId): useRegisterMutation.onSuccess and the effect
\* of useMyProfileQuery
SetUserInfoCall == \E name \in Names, userId \in Usernames :
    /\ SetAuthState(SetUserInfo(AuthState, name, userId),
                    localStorage.access_token)
    /\ UNCHANGED <<bookmarkVars, windowLocation, appStore, logoutMutation,
                   toggleMutation, storeCalls>>

\* logout(): the set, then removeItem('access_token')
LogoutCall ==
    /\ SetAuthState(StoreLogout(AuthState), Null)
    /\ UNCHANGED <<bookmarkVars, windowLocation, appStore, logoutMutation,
                   toggleMutation, storeCalls>>

\* a store left as it is, with the keys ls
KeepAuthState(st, ls) ==
    /\ isLoggedIn' = st.isLoggedIn
    /\ session' = [token |-> st.token, username |-> st.username,
                   name |-> st.name, userId |-> st.userId]
    /\ localStorage' = ls

\* loadFromStorage() on the store state st
LoadFromStorageOn(st) ==
    IF LoadFromStorageRestores(localStorage)
    THEN SetAuthState(LoadFromStorage(st, localStorage),
                      localStorage.access_token)
    ELSE KeepAuthState(st, LoadFromStorageKeys(localStorage))

\* loadFromStorage()
LoadFromStorageCall ==
    /\ LoadFromStorageOn(AuthState)
    /\ UNCHANGED <<bookmarkVars, windowLocation, appStore, logoutMutation,
                   toggleMutation, storeCalls>>

\* the response interceptor on a 401: removeItem('access_token'), logout()
\* in the continuation of the import, window.location.href = '/login'.
\* The imported module is already loaded, so the continuation runs before
\* the page is left.  The error effect of useCurrentUserQuery does the
\* first two synchronously (LogoutCall).
Unauthorized401 ==
    /\ SetAuthState(Interceptor401(AuthState), Null)
    /\ windowLocation' = [windowLocation EXCEPT !.asked = "/login"]
    /\ UNCHANGED <<bookmarkVars, appStore, logoutMutation,
                   toggleMutation, storeCalls>>

\* the logout entry of the user menu, shown to a logged-in user:
\* handleLogout() starts POST /auth/logout
LogoutMutate ==
    /\ isLoggedIn
    /\ logoutMutation # "pending"
    /\ logoutMutation' = "pending"
    /\ UNCHANGED <<isLoggedIn, session, localStorage>>
    /\ UNCHANGED <<bookmarkVars, windowLocation, appStore,
                   toggleMutation, storeCalls>>

\* the logout request settles, after the retry when it fails: onSuccess or
\* onError, each logout() and navigate('/')
LogoutSettle == \E outcome \in {"success", "error"} :
    /\ logoutMutation = "pending"
    /\ logoutMutation' = outcome
    /\ SetAuthState(IF outcome = "success" THEN LogoutOnSuccess(AuthState)
                    ELSE LogoutOnError(AuthState), Null)
    /\ windowLocation' = [windowLocation EXCEPT !.href = "/"]
    /\ UNCHANGED <<bookmarkVars, appStore, toggleMutation, storeCalls>>

\* the page asked for is loaded: the store is created from 'auth-storage'
\* and App's effect calls loadFromStorage()
PageLoad ==
    /\ windowLocation.asked # Null
    /\ LoadFromStorageOn(Rehydrate(localStorage))
    /\ windowLocation' = [href |-> windowLocation.asked, asked |-> Null]
    /\ appStore' = InitialAppState
    /\ logoutMutation' = "idle"
    /\ toggleMutation' = IdleToggle
    /\ UNCHANGED <<bookmarkVars, storeCalls>>

\* useSignupMutation: setItem('access_token', data.token) with a response
\* whose user has no name, so that login is not called
StoreAccessToken == \E token \in Tokens :
    /\ localStorage.access_token # token
    /\ localStorage' = [localStorage EXCEPT !.access_token = token]
    /\ UNCHANGED <<isLoggedIn, session>>
    /\ UNCHANGED <<bookmarkVars, windowLocation, appStore, logoutMutation,
                   toggleMutation, storeCalls>>

AuthNext ==
    \/ LoginCall
    \/ UpdateUserIdCall
    \/ SetUserInfoCall
    \/ LogoutCall
    \/ LoadFromStorageCall
    \/ Unauthorized401
    \/ LogoutMutate
    \/ LogoutSettle
    \/ PageLoad
    \/ StoreAccessToken

AuthSpec == Init /\ [][AuthNext]_vars

\* C19: in every state of the auth store isLoggedIn is true exactly when
\* token is not null.
C19_LoggedInIffToken == isLoggedIn = (session.token # Null)

\* a session is in the store, with the user info set, while the
\* 'access_token' key holds a token other than the store's
C19_Witness ==
    /\ isLoggedIn
    /\ session.token \in Tokens
    /\ localStorage.access_token \in Tokens \ {session.token}
    /\ session.name \in Names
    /\ session.userId = session.username

\* C20 as stated: whenever token is null, username, name and userId are
\* null too.
C20_NoSessionFieldsWithoutToken ==
    session.token = Null
    => /\ session.username = Null
       /\ session.name = Null
       /\ session.userId = Null

\* C21: a 401 response removes 'access_token', asks for /login and leaves
\* the store logged out with no token, in the persisted state as well, so
\* that the page loaded next starts logged out.
C21_UnauthorizedLogsOut ==
    [][Unauthorized401
       => /\ localStorage'.access_token = Null
          /\ windowLocation'.asked = "/login"
          /\ ~isLoggedIn' /\ session'.token = Null
          /\ ~Rehydrate(localStorage').isLoggedIn
          /\ Rehydrate(localStorage').token = Null]_vars

\* the /login page has been loaded after a 401: the stored state is the
\* logged-out one and nothing of a session is left
C21_Witness ==
    /\ windowLocation.href = "/login"
    /\ localStorage.auth_storage.present
    /\ localStorage.auth_storage.state = InitialAuthState
    /\ ~isLoggedIn /\ session.token = Null
    /\ localStorage.access_token = Null

\* C22: when a logout mutation settles, with success or with failure, the
\* local session is cleared: isLoggedIn false, token, username, name and
\* userId null, and no 'access_token' key.
C22_LogoutSettledClears ==
    [][LogoutSettle
       => /\ ~isLoggedIn'
          /\ session' = [token |-> Null, username |-> Null,
                         name |-> Null, userId |-> Null]
          /\ localStorage'.access_token = Null]_vars

\* a logout request has failed and the session is gone
C22_Witness ==
    /\ logoutMutation = "error"
    /\ ~isLoggedIn
    /\ session.token = Null /\ session.username = Null
    /\ session.name = Null /\ session.userId = Null
    /\ localStorage.access_token = Null
    /\ localStorage.auth_storage.state = InitialAuthState

\* ---- the auth store with a foreign writer of the storage ----

\* another script of the origin leaves a value under 'auth-storage' that
\* is not JSON; the store of this page is not told
ForeignSetItem ==
    /\ localStorage.auth_storage # Unparseable
    /\ localStorage' = [localStorage EXCEPT !.auth_storage = Unparseable]
    /\ UNCHANGED <<isLoggedIn, session>>
    /\ UNCHANGED <<bookmarkVars, windowLocation, appStore, logoutMutation,
                   toggleMutation, storeCalls>>

StorageNext == AuthNext \/ ForeignSetItem

StorageSpec == Init /\ [][StorageNext]_vars

\* C23: loadFromStorage with an 'access_token' and an 'auth-storage' entry
\* that does not parse removes both keys and leaves the store not logged
\* in, with no token, whatever the store held before.
C23_UnparseableLogsOut ==
    [][(/\ LoadFromStorageCall
        /\ Truthy(localStorage.access_token)
        /\ localStorage.auth_storage = Unparseable)
       => /\ localStorage'.access_token = Null
          /\ ~localStorage'.auth_storage.present
          /\ ~isLoggedIn' /\ session'.token = Null]_vars

\* ---- the app store on its own ----

MaxStoreCalls == 3

\* the paper numbers viewed: one more than the list keeps
ViewIds == 1..(RecentLimit + 1)

\* the list after the papers 1..k have been viewed in that order
ViewedInOrder(k) == [i \in 1..k |-> k + 1 - i]

\* the app store after some papers have been viewed
AppStoreInit ==
    /\ BaseInit
    /\ serverBookmarks = {} /\ rowForm = "direct"
    /\ localStorage = EmptyStorage
    /\ appStore \in {[InitialAppState EXCEPT
                         !.recentlyViewedPaperIds = ViewedInOrder(k)] :
                     k \in 0..RecentLimit}

authVars == <<isLoggedIn, session, localStorage, windowLocation,
              logoutMutation, toggleMutation>>

\* addRecentlyViewedPaper(paperId)
AddRecentlyViewedPaperCall(paperId) ==
    /\ storeCalls < MaxStoreCalls
    /\ storeCalls' = storeCalls + 1
    /\ appStore' = AddRecentlyViewedPaper(appStore, paperId)
    /\ UNCHANGED <<bookmarkVars, authVars>>

\* the papers toggled: one outside the sample bookmarks, the first and
\* the last of them
ToggleIds == {1, 8, 14}

\* toggleBookmark(paperId)
ToggleBookmarkCall(paperId) ==
    /\ storeCalls < MaxStoreCalls
    /\ storeCalls' = storeCalls + 1
    /\ appStore' = ToggleBookmark(appStore, paperId)
    /\ UNCHANGED <<bookmarkVars, authVars>>

\* login(userName, userId) of the app store
AppLoginCall ==
    /\ ~appStore.isLoggedIn
    /\ appStore' = AppLogin(appStore)
    /\ UNCHANGED <<bookmarkVars, authVars, storeCalls>>

\* logout() of the app store
AppLogoutCall ==
    /\ appStore.isLoggedIn
    /\ appStore' = AppLogout(appStore)
    /\ UNCHANGED <<bookmarkVars, authVars, storeCalls>>

AppStoreNext ==
    \/ \E paperId \in ViewIds : AddRecentlyViewedPaperCall(paperId)
    \/ \E paperId \in ToggleIds : ToggleBookmarkCall(paperId)
    \/ AppLoginCall
    \/ AppLogoutCall

AppStoreSpec == AppStoreInit /\ [][AppStoreNext]_vars

\* the position of x in the sequence s, 0 when it is not there
IndexOf(s, x) ==
    IF \E i \in 1..Len(s) : s[i] = x
    THEN CHOOSE i \in 1..Len(s) : s[i] = x /\ \A j \in 1..(i - 1) : s[j] # x
    ELSE 0

NoDuplicates(s) == \A i, j \in 1..Len(s) : s[i] = s[j] => i = j

\* C24: after addRecentlyViewedPaper(p) the list has no duplicates and at
\* most 10 entries, p is first, and the entries behind it are entries of
\* the list before, other than p, in the order they had there.
C24_RecentlyViewedList ==
    [][\A paperId \in ViewIds :
         AddRecentlyViewedPaperCall(paperId)
         => LET old == appStore.recentlyViewedPaperIds
                new == appStore'.recentlyViewedPaperIds
            IN  /\ NoDuplicates(new)
                /\ Len(new) <= 10
                /\ Len(new) >= 1 /\ new[1] = paperId
                /\ \A i \in 2..Len(new) :
                      new[i] # paperId /\ IndexOf(old, new[i]) > 0
                /\ \A i, j \in 2..Len(new) :
                      i < j => IndexOf(old, new[i]) < IndexOf(old, new[j])]_vars

\* a full list in which a paper viewed before has come back to the front
\* and the oldest entry is still the last
C24_Witness ==
    LET ids == appStore.recentlyViewedPaperIds IN
    /\ Len(ids) = 10
    /\ storeCalls >= 2
    /\ ids[1] < ids[2]
    /\ ids[2] = 11

\* the ids of a list, as a set
Members(s) == {s[i] : i \in 1..Len(s)}

\* C25: toggleBookmark(P) leaves the state as it is when the app store is
\* not logged in; when it is, membership of String(P) in
\* bookmarkedPaperIds is flipped, every other id keeps its membership, the
\* list stays free of duplicates, and a second toggle of P gives back the
\* membership of before.
C25_ToggleFlipsMembership ==
    [][\A paperId \in ToggleIds :
         ToggleBookmarkCall(paperId)
         => LET old == appStore.bookmarkedPaperIds
                new == appStore'.bookmarkedPaperIds
                P == String(paperId)
                again == ToggleBookmark(appStore', paperId).bookmarkedPaperIds
            IN  IF ~appStore.isLoggedIn THEN appStore' = appStore
                ELSE /\ (P \in Members(new)) = (P \notin Members(old))
                     /\ Members(new) \ {P} = Members(old) \ {P}
                     /\ NoDuplicates(new)
                     /\ Members(again) = Members(old)]_vars

\* a logged-in app store in which a sample bookmark has been toggled off
\* and on again: it is back, now at the end of the list
C25_Witness ==
    LET ids == appStore.bookmarkedPaperIds IN
    /\ appStore.isLoggedIn
    /\ Len(ids) = 7
    /\ ids[7] = "8"
    /\ storeCalls >= 2

\* ---- the toggle mutation of the paper detail page ----

\* useToggleBookmarkMutation.onMutate for a logged-in user: the cache
\* entry after cancelQueries and the optimistic write
ToggleOnMutate(q, paperId) ==
    LET cancelled == CancelQueries(q)
        previousBookmarks == cancelled.data
        paperIdString == String(paperId)
        newBookmarks ==
            IF ToggleIsBookmarked(previousBookmarks.list, paperIdString)
            THEN SelectSeq(previousBookmarks.list,
                           LAMBDA b : BookmarkPaperId(b) # paperIdString)
            ELSE previousBookmarks.list
    IN  IF previousBookmarks.defined
        THEN SetQueryData(cancelled, Data(newBookmarks))
        ELSE cancelled

\* the toast of the app store's toggleBookmark
ToggleBookmarkToast(st, paperId) ==
    IF ~st.isLoggedIn THEN "loginRequired"
    ELSE IF SeqIncludes(st.bookmarkedPaperIds, String(paperId))
         THEN "removed" ELSE "added"

\* toggleBookmarkMutation.mutate(paperId) from the detail page; the button
\* is disabled while the mutation is pending.  Without a session onMutate
\* throws and onError runs with no context.
ToggleMutate(paperId) ==
    /\ toggleMutation.status # "pending"
    /\ IF ~isLoggedIn
       THEN /\ toggleMutation' = [status |-> "error", paperId |-> paperId,
                                  context |-> NoData, toast |-> "failed"]
            /\ UNCHANGED bookmarksQuery
       ELSE /\ toggleMutation' =
                 [status |-> "pending", paperId |-> paperId,
                  context |-> CancelQueries(bookmarksQuery).data,
                  toast |-> "none"]
            /\ bookmarksQuery' = ToggleOnMutate(bookmarksQuery, paperId)
    /\ UNCHANGED <<isLoggedIn, logins, session, localStorage, windowLocation,
                   appStore, logoutMutation, storeCalls, serverBookmarks,
                   rowForm, detailInvalidated, searchInvalidated, mutations,
                   handlerToast>>

\* POST /papers/{paperId}/bookmark resolves: the server has flipped the
\* bookmark; onSuccess calls the app store's toggleBookmark and invalidates
\* the list, the paper's detail and the searches
ToggleSuccess(paperId) ==
    /\ toggleMutation.status = "pending"
    /\ toggleMutation.paperId = paperId
    /\ serverBookmarks' =
         IF paperId \in serverBookmarks THEN serverBookmarks \ {paperId}
         ELSE serverBookmarks \cup {paperId}
    /\ appStore' = ToggleBookmark(appStore, paperId)
    /\ toggleMutation' =
         [toggleMutation EXCEPT !.status = "success",
                                !.toast = ToggleBookmarkToast(appStore, paperId)]
    /\ bookmarksQuery' = InvalidateQueries(bookmarksQuery, Active)
    /\ detailInvalidated' = detailInvalidated \cup {paperId}
    /\ searchInvalidated' = TRUE
    /\ UNCHANGED <<isLoggedIn, logins, session, localStorage, windowLocation,
                   logoutMutation, storeCalls, rowForm, mutations,
                   handlerToast>>

\* the request has failed on its last attempt: onError writes the snapshot
\* back and shows the failure toast
ToggleError ==
    /\ toggleMutation.status = "pending"
    /\ toggleMutation' = [toggleMutation EXCEPT !.status = "error",
                                                !.toast = "failed"]
    /\ bookmarksQuery' = SetQueryData(bookmarksQuery, toggleMutation.context)
    /\ UNCHANGED <<isLoggedIn, logins, session, localStorage, windowLocation,
                   appStore, logoutMutation, storeCalls, serverBookmarks,
                   rowForm, detailInvalidated, searchInvalidated, mutations,
                   handlerToast>>

ToggleNext ==
    \/ Login
    \/ Logout
    \/ FetchStart
    \/ FetchSuccess
    \/ FetchError
    \/ SearchRefetched
    \/ \E paperId \in Papers : ToggleMutate(paperId)
    \/ \E paperId \in Papers : ToggleSuccess(paperId)
    \/ ToggleError

ToggleSpec == Init /\ [][ToggleNext]_vars

\* C26 as stated: when the toggle mutation succeeds for paper P while the
\* auth store is logged in, membership of String(P) in the app store's
\* bookmarkedPaperIds is flipped.
C26_SuccessFlipsAppStore ==
    [][\A paperId \in Papers :
         (ToggleSuccess(paperId) /\ isLoggedIn)
         => (String(paperId) \in Members(appStore'.bookmarkedPaperIds))
            = (String(paperId) \notin Members(appStore.bookmarkedPaperIds))]_vars

\* ---- the recent searches on their own ----

MaxSearchCalls == 2

\* the keyword saved as the n-th
Keyword(n) == "k" \o String(n)

\* the stored list after Keyword(1..k) have been saved in that order
SavedInOrder(k) == [i \in 1..k |-> Keyword(k + 1 - i)]

\* the queries passed: the oldest and the newest keyword of a full list,
\* one that is in no list, and the empty text, each also behind a blank
SearchQueries ==
    [lead : {"", " "},
     core : {Keyword(1), Keyword(DEFAULT_LIMIT), Keyword(DEFAULT_LIMIT + 1),
             ""}]

\* the storage after Keyword(1..k) have been saved in that order
SearchInit ==
    /\ BaseInit
    /\ serverBookmarks = {} /\ rowForm = "direct"
    /\ appStore = InitialAppState
    /\ localStorage \in
         {EmptyStorage}
         \cup {[EmptyStorage EXCEPT !.recent_search_keywords =
                   [present |-> TRUE, list |-> SavedInOrder(k)]] :
               k \in 1..DEFAULT_LIMIT}

searchFixed == <<isLoggedIn, session, windowLocation, appStore,
                 logoutMutation, toggleMutation>>

\* saveSearchKeyword(query)
SaveSearchKeywordCall(query) ==
    /\ storeCalls < MaxSearchCalls
    /\ storeCalls' = storeCalls + 1
    /\ localStorage' = SaveSearchKeyword(localStorage, query, DEFAULT_LIMIT)
    /\ UNCHANGED <<bookmarkVars, searchFixed>>

\* removeSearchKeyword(query)
RemoveSearchKeywordCall(query) ==
    /\ storeCalls < MaxSearchCalls
    /\ storeCalls' = storeCalls + 1
    /\ localStorage' = RemoveSearchKeyword(localStorage, query, DEFAULT_LIMIT)
    /\ UNCHANGED <<bookmarkVars, searchFixed>>

\* clearSearchKeywords()
ClearSearchKeywordsCall ==
    /\ storeCalls < MaxSearchCalls
    /\ storeCalls' = storeCalls + 1
    /\ localStorage' = ClearSearchKeywords(localStorage)
    /\ UNCHANGED <<bookmarkVars, searchFixed>>

SearchNext ==
    \/ \E query \in SearchQueries : SaveSearchKeywordCall(query)
    \/ \E query \in SearchQueries : RemoveSearchKeywordCall(query)
    \/ ClearSearchKeywordsCall

SearchSpec == SearchInit /\ [][SearchNext]_vars

\* the list under 'recent_search_keywords', [] when the key is absent
StoredKeywords(ls) == ls.recent_search_keywords.list

\* C27: after saveSearchKeyword or removeSearchKeyword with the default
\* limit the stored list has no duplicates and at most 20 entries; after a
\* save of a query that is not blank its trimmed text is first; after a
\* remove the query is not in the list; a save of a blank query leaves the
\* storage as it is.
C27_RecentSearches ==
    [][\A query \in SearchQueries :
         /\ SaveSearchKeywordCall(query)
            => LET new == StoredKeywords(localStorage') IN
               IF TrimQuery(query) = "" THEN localStorage' = localStorage
               ELSE /\ NoDuplicates(new) /\ Len(new) <= 20
                    /\ Len(new) >= 1 /\ new[1] = TrimQuery(query)
                    /\ new[1] # ""
         /\ RemoveSearchKeywordCall(query)
            => LET new == StoredKeywords(localStorage') IN
               /\ NoDuplicates(new) /\ Len(new) <= 20
               /\ RawQuery(query) \notin Members(new)]_vars

\* a full list to which a new keyword, typed behind a blank, was saved:
\* it is first without the blank and the oldest keyword has gone
C27_Witness ==
    LET list == StoredKeywords(localStorage) IN
    /\ Len(list) = 20
    /\ list[1] = Keyword(21)
    /\ list[20] = Keyword(2)
    /\ storeCalls = 1

\* C28 as stated: handleBookmark never sends a deleteBookmark request with
\* a placeholder id temp-<paperId>, also for a paper whose only cached
\* entry is the one an add still pending has written.
C28_NoDeleteOfPlaceholder ==
    [][ClickBookmark
       => \A i \in 1..Len(mutations') :
            (Sent(i) /\ mutations'[i].kind = "delete")
            => mutations'[i].bookmarkId
                 \notin {TempId(paperId) : paperId \in PaperIds}]_vars

\* mutations i and j are adds for different papers, the optimistic phase
\* of j found the list as the optimistic phase of i had left it
OverlappingAdds(i, j) ==
    /\ i < j
    /\ mutations[i].kind = "add" /\ mutations[j].kind = "add"
    /\ mutations[i].paperId # mutations[j].paperId
    /\ mutations[i].context.defined
    /\ ~Exists(mutations[i].context.list, mutations[i].paperId)
    /\ mutations[j].context =
         Data(AddUpdater(mutations[i].context.list, mutations[i].paperId))

\* this step ended the second of the adds i and j, both with a server
\* error that is no duplicate conflict
BothFailed(i, j) ==
    /\ Settled(i) \/ Settled(j)
    /\ mutations'[i].status = "error" /\ mutations'[j].status = "error"
    /\ mutations'[i].error = MsgServer /\ mutations'[j].error = MsgServer
    /\ ~IsDuplicateError(MsgServer)

\* C29 as stated: when two overlapping adds for different papers P and Q
\* have both failed with a generic error, in either order, the cached
\* list is the value from before P's optimistic write and holds no
\* placeholder for P or Q.
C29_BothRollbacksRestore ==
    [][\A i, j \in 1..Len(mutations) :
         (OverlappingAdds(i, j) /\ BothFailed(i, j))
         => /\ bookmarksQuery'.data = mutations[i].context
            /\ \A k \in 1..Len(bookmarksQuery'.data.list) :
                  bookmarksQuery'.data.list[k].id
                    \notin {TempId(mutations[i].paperId),
                             TempId(mutations[j].paperId)}]_vars

\* C30 as stated: whenever the auth store is logged in, the 'access_token'
\* key holds the store's token.
C30_TokenKeyMatchesStore ==
    isLoggedIn => localStorage.access_token = session.token

====
